---------------------------- MODULE Spec2Model ----------------------------
(***************************************************************************)
(* Model of the semantic-analysis core of the COOL compiler front end:     *)
(* the inheritance registry (types.py), the static type environment        *)
(* (types.py), the type-check pass over the AST (ast.py) and the runtime   *)
(* scope chain (scope.py).                                                 *)
(*                                                                         *)
(* Four specifications share the variables:                                *)
(*   SpecTypes  queries inherits / union_type on an arbitrary registry     *)
(*   Spec       sequences of ClassDeclarationAST.init_typecheck            *)
(*   SpecCheck  one check_type call on a class, feature or expression      *)
(*   SpecScope  Scope.get_var / set_var / child on a runtime scope chain   *)
(***************************************************************************)
EXTENDS Naturals, Sequences, FiniteSets, TLC

VARIABLES
    parentOf,    \* _TYPE_TO_PARENTTYPE : class name -> parent type (NoEdge: no key)
    typeToTE,    \* _TYPE_TO_TE : class name -> cached root TypeEnvironment
    scopes,      \* runtime Scope chain, scopes[1] outermost, scopes[Len] innermost
    last         \* the last operation performed, its inputs and its outcome

vars == <<parentOf, typeToTE, scopes, last>>

(***************************************************************************)
(* Names.  Python's None and an absent dictionary key are modelled by      *)
(* sentinel strings so that every value stays comparable.                  *)
(***************************************************************************)
Bool == "Bool"
Int == "Int"
String == "String"
IO == "IO"
Object == "Object"
SELF_TYPE == "SELF_TYPE"
SELF == "self"

None == "<None>"            \* Python None (absent Optional, dict.get miss)
NoEdge == None              \* type has no key in _TYPE_TO_PARENTTYPE
NoType == "<unbound>"       \* name has no key in a TypeEnvironment / Scope map
Diverges == "<diverges>"    \* the call never returns (inherits on a cyclic chain)
MemoryError == "MemoryError"  \* union_type's deque grew until memory ran out

ClassNames == {"A", "B", "C", "D"}
StdTypes == {Bool, Int, String, IO, Object}
AllTypes == ClassNames \cup StdTypes \cup {SELF_TYPE}

\* inherits() outcomes: the two return values, the KeyError of line 82, no return
InhTrue == "True"
InhFalse == "False"
BrokenHierarchy == "BrokenHierarchy"

(***************************************************************************)
(* Inheritance registry (types.py)                                         *)
(***************************************************************************)
\* _TYPE_TO_PARENTTYPE.get(t): the parent, or None when t has no key
RegGet(reg, t) == IF t \in DOMAIN reg THEN reg[t] ELSE None

is_std_type(type) ==
    type = Bool \/ type = Int \/ type = String \/ type = IO \/ type = Object

is_inheritable(type) ==
    type # SELF_TYPE /\ type # Bool /\ type # Int /\ type # String

\* make_inherit: records or overwrites the edge, no validation
make_inherit(reg, type, parent_type) == [reg EXCEPT ![type] = parent_type]

\* The while loop of inherits(), one iteration per unfolding.  `seen` holds the
\* values t has taken: the loop is deterministic in t, so taking a value a
\* second time means it never exits.
RECURSIVE InheritsLoop(_, _, _, _)
InheritsLoop(reg, t, parent_type, seen) ==
    IF t = None \/ t = Object THEN InhFalse
    ELSE IF t = parent_type THEN InhTrue
    ELSE IF RegGet(reg, t) = None THEN BrokenHierarchy
    ELSE IF t \in seen THEN Diverges
    ELSE InheritsLoop(reg, reg[t], parent_type, seen \cup {t})

inherits_noroot(reg, type, parent_type) == InheritsLoop(reg, type, parent_type, {})

inherits(reg, type, parent_type) ==
    IF parent_type = Object THEN InhTrue
    ELSE InheritsLoop(reg, type, parent_type, {})

RECURSIVE FamilyLoop(_, _, _, _)
RECURSIVE FamilyLoop_append(_, _, _, _)
FamilyLoop_append(reg, t, family, seen) ==
    IF t = None \/ t = Object THEN family
    ELSE IF t \in seen THEN <<MemoryError>>
    ELSE FamilyLoop_append(reg, RegGet(reg, t), family \o <<t>>, seen \cup {t})

\* The inner while loop of union_type(): the deque built by appendleft, i.e.
\* the chain from the topmost non-Object ancestor down to `type`.
FamilyLoop(reg, t, family, seen) ==
    IF t = None \/ t = Object THEN family
    ELSE IF t \in seen THEN <<MemoryError>>
    ELSE FamilyLoop(reg, RegGet(reg, t), <<t>> \o family, seen \cup {t})

FamilyOf(reg, type) == FamilyLoop(reg, type, <<>>, {})

\* On a cyclic chain the loop appends to the deque on every iteration and
\* never exits: the call ends when the allocation fails.
FamilyExhausts(reg, type) == FamilyOf(reg, type) = <<MemoryError>>

\* _repeated(types) on one column of the zip
Repeated(column) == column # {} /\ \A v \in column : \A w \in column : v = w

SeqRange(s) == {s[i] : i \in 1..Len(s)}

MinLen(fams) ==
    CHOOSE n \in 0..Cardinality(AllTypes) :
        /\ \A f \in fams : n <= Len(f)
        /\ \E f \in fams : n = Len(f)

\* for types in zip(*families): the last column before the first disagreement
LeastOfZip(fams) ==
    LET n == MinLen(fams)
        agree(i) == Repeated({f[i] : f \in fams})
        good == {i \in 1..n : \A j \in 1..i : agree(j)}
    IN  IF good = {} THEN Object
        ELSE LET k == CHOOSE i \in good : \A j \in good : j <= i
                 f == CHOOSE g \in fams : TRUE
             IN  f[k]

union_type(reg, types) ==
    LET type_set == SeqRange(types)
    IN  IF Cardinality(type_set) = 1 THEN CHOOSE t \in type_set : TRUE
        ELSE IF \E t \in type_set : FamilyExhausts(reg, t) THEN MemoryError
        ELSE LET fams == {FamilyOf(reg, t) : t \in type_set}
             IN  IF fams = {} THEN Object ELSE LeastOfZip(fams)

normalize_id(type, te_type) == type

\* normalize(type, te): SELF_TYPE becomes the environment's current class
normalize(type, te_type) == IF type # SELF_TYPE THEN type ELSE te_type

(***************************************************************************)
(* Type environment (types.py).  TypeEnvironment objects live in a heap:   *)
(* a sequence of nodes addressed by index, each holding the index of its   *)
(* parent (NoParent for None).  A class's root environment, cached in      *)
(* _TYPE_TO_TE, is node 1 of the heap of that class's check.               *)
(***************************************************************************)
IdNames == {"x", "y", "p"}
MethNames == {"m"}

NoParent == 0
NoSig == [params |-> <<>>, ret |-> NoType]
EmptyObjs == [n \in IdNames |-> NoType]
EmptyMeths == [n \in MethNames |-> NoSig]

\* TypeEnvironment.__init__
NewTE(type, parent) ==
    [type |-> type, objs |-> EmptyObjs, meths |-> EmptyMeths, parent |-> parent]

\* Outcome of a check_type call: a static type, or the raise that ended it,
\* together with the heap as the call left it.  `const` tells whether the
\* returned str object is StdType's own constant (Ok) or a str that came in
\* with a declaration (OkDecl): only the `is` tests of ast.py can tell.
Ok(type, h) == [ok |-> TRUE, val |-> type, const |-> TRUE, h |-> h]
OkDecl(type, h) == [ok |-> TRUE, val |-> type, const |-> FALSE, h |-> h]
Err(kind, h) == [ok |-> FALSE, val |-> kind, const |-> FALSE, h |-> h]

\* `r is StdType.X`: the same str object.  Whether an equal str from a
\* declaration is the same object as the constant is the interpreter's choice
\* (string interning), fixed per run by `interned`.
Is(r, type, interned) == r.val = type /\ (r.const \/ interned)

RECURSIVE get_object_type(_, _, _)
get_object_type(h, te, name) ==
    IF h[te].objs[name] # NoType THEN h[te].objs[name]
    ELSE IF h[te].parent # NoParent THEN get_object_type(h, h[te].parent, name)
    ELSE NoType                      \* raise Exception('')

CanSetObject_always(h, te, name) == TRUE

\* set_object_type: the guard (line 31) and the store (line 34)
CanSetObject(h, te, name) == h[te].objs[name] = NoType

set_object_type(h, te, name, type) == [h EXCEPT ![te].objs[name] = type]

CanSetMethod(h, te, name) == h[te].meths[name] = NoSig

set_method_type(h, te, name, param_types, return_type) ==
    [h EXCEPT ![te].meths[name] = [params |-> param_types, ret |-> return_type]]

child_alias(h, te) == [h |-> h, id |-> te]

\* TypeEnvironment.child: a new node whose parent is te, same current class
child(h, te) == [h |-> Append(h, NewTE(h[te].type, te)), id |-> Len(h) + 1]

(***************************************************************************)
(* AST nodes (ast.py) are records tagged by k:                             *)
(*   Int, Bool, String (literals)   Id(name)        New(type)              *)
(*   IsVoid(expr) Neg(expr) Not(expr) Group(expr)                          *)
(*   Arith(left,right) Cmp(op,left,right) Assign(name,value) Call          *)
(*   If(cond,then,else) Loop(cond,body) Block(exprs)                       *)
(*   Let(binds,body), binds a sequence of [name,type,value]                *)
(*   Case(expr,cases), cases a sequence of [name,type,expr]                *)
(*   Attr(name,type,value)  Method(name,params,type,body)                  *)
(* An absent Optional[IAST] is NoExpr.                                     *)
(* A node is an object of its class that carries the fields the class's    *)
(* __init__ assigns; check_type is the class's method run on it.  (IAST    *)
(* derives from ABCMeta, so a node class is a metaclass and calling it as  *)
(* written raises TypeError before __init__ runs: nodes exist only when    *)
(* made with type.__new__ and their fields set.)                           *)
(* `self.op[0] is '='` compares one-character strs, which CPython shares,  *)
(* and is modelled by equality.                                            *)
(***************************************************************************)
NoExpr == [k |-> "None"]

\* Failure kinds, named after the raise site
UnboundIdentifier == "UnboundIdentifier"        \* types.py:28
DuplicateDeclaration == "DuplicateDeclaration"  \* types.py:32, types.py:47
TypeMismatch == "TypeMismatch"                  \* a failed inherits()/type test
ConditionNotBoolean == "ConditionNotBoolean"    \* ast.py:133, ast.py:147
DuplicateCaseType == "DuplicateCaseType"        \* ast.py:213
InvalidInheritance == "InvalidInheritance"      \* ast.py:35
InvalidClassName == "InvalidClassName"          \* ast.py:46, ast.py:49
NotImplemented == "NotImplemented"              \* ast.py:122

\* `if not inherits(a, b): raise`, with the walk's own failures passed on
Conforms(reg, type, to, h, then) ==
    LET r == inherits(reg, type, to)
    IN  IF r = InhTrue THEN then
        ELSE IF r = InhFalse THEN Err(TypeMismatch, h)
        ELSE Err(r, h)

\* `return union_type(ts)`.  The str returned is the first of the equal
\* members when they are all equal (set() keeps the first, pop() returns it),
\* and otherwise the Object constant or a class name.
Joined(reg, ts, first_const, h) ==
    LET u == union_type(reg, ts)
    IN  IF u = MemoryError THEN Err(MemoryError, h)
        ELSE IF Cardinality(SeqRange(ts)) = 1 /\ ~first_const THEN OkDecl(u, h)
        ELSE IF u = Object \/ Cardinality(SeqRange(ts)) = 1 THEN Ok(u, h)
        ELSE OkDecl(u, h)

\* The for loops of BlockExpressionAST, VarsInitAST and TypeMatchingAST are
\* unfolded one iteration per call, on a loop record holding the node, the
\* index of the next element and the loop's local variables.
BlockLoop(e, i, last_type) ==
    [k |-> "BlockLoop", node |-> e, i |-> i, last_type |-> last_type]
LetLoop(e, i, extended_te) ==
    [k |-> "LetLoop", node |-> e, i |-> i, extended_te |-> extended_te]
CaseLoop(e, i, case_types, expr_types, first_const) ==
    [k |-> "CaseLoop", node |-> e, i |-> i,
     case_types |-> case_types, expr_types |-> expr_types, first_const |-> first_const]

RECURSIVE check_type(_, _, _, _, _)
\* <node>.check_type(te) for every expression node class of ast.py
check_type(e, te, h, reg, interned) ==
    CASE e.k = "Int" -> Ok(Int, h)
      [] e.k = "Bool" -> Ok(Bool, h)
      [] e.k = "String" -> Ok(String, h)
      [] e.k = "Id" ->
            IF e.name = SELF THEN OkDecl(h[te].type, h)
            ELSE LET t == get_object_type(h, te, e.name)
                 IN  IF t = NoType THEN Err(UnboundIdentifier, h) ELSE OkDecl(t, h)
      [] e.k = "New" -> OkDecl(normalize(e.type, h[te].type), h)
      [] e.k = "IsVoid" -> Ok(Bool, h)
      [] e.k = "Neg" ->
            LET r == check_type(e.expr, te, h, reg, interned)
            IN  IF ~r.ok THEN r
                ELSE IF r.val = Int THEN Ok(Int, r.h) ELSE Err(TypeMismatch, r.h)
      [] e.k = "Not" ->
            LET r == check_type(e.expr, te, h, reg, interned)
            IN  IF ~r.ok THEN r
                ELSE IF r.val = Bool THEN Ok(Bool, r.h) ELSE Err(TypeMismatch, r.h)
      [] e.k = "Group" -> check_type(e.expr, te, h, reg, interned)
      [] e.k = "Arith" ->
            LET l == check_type(e.left, te, h, reg, interned)
            IN  IF ~l.ok THEN l
                ELSE IF ~Is(l, Int, interned) THEN Err(TypeMismatch, l.h)
                ELSE LET r == check_type(e.right, te, l.h, reg, interned)
                     IN  IF ~r.ok THEN r
                         ELSE IF ~Is(r, Int, interned) THEN Err(TypeMismatch, r.h)
                         ELSE Ok(Int, r.h)
      [] e.k = "Cmp" ->
            LET l == check_type(e.left, te, h, reg, interned)
            IN  IF ~l.ok THEN l
                ELSE LET r == check_type(e.right, te, l.h, reg, interned)
                     IN  IF ~r.ok THEN r
                         ELSE IF e.op = "="
                              THEN IF l.val = r.val THEN Ok(Bool, r.h)
                                   ELSE Err(TypeMismatch, r.h)
                         ELSE IF ~Is(l, Int, interned) \/ ~Is(r, Int, interned)
                              THEN Err(TypeMismatch, r.h)
                         ELSE Ok(Bool, r.h)
      [] e.k = "Assign" ->
            LET var_type == get_object_type(h, te, e.name)
            IN  IF var_type = NoType THEN Err(UnboundIdentifier, h)
                ELSE LET r == check_type(e.value, te, h, reg, interned)
                     IN  IF ~r.ok THEN r
                         ELSE Conforms(reg, r.val, var_type, r.h, r)
      [] e.k = "Call" -> Err(NotImplemented, h)
      [] e.k = "If" ->
            LET c == check_type(e.cond, te, h, reg, interned)
            IN  IF ~c.ok THEN c
                ELSE IF ~Is(c, Bool, interned) THEN Err(ConditionNotBoolean, c.h)
                ELSE LET t == check_type(e.then, te, c.h, reg, interned)
                     IN  IF ~t.ok THEN t
                         ELSE LET f == check_type(e.else, te, t.h, reg, interned)
                              IN  IF ~f.ok THEN f
                                  ELSE Joined(reg, <<t.val, f.val>>, t.const, f.h)
      [] e.k = "Loop" ->
            LET c == check_type(e.cond, te, h, reg, interned)
            IN  IF ~c.ok THEN c
                ELSE IF c.val # Bool THEN Err(ConditionNotBoolean, c.h)
                ELSE LET b == check_type(e.body, te, c.h, reg, interned)
                     IN  IF ~b.ok THEN b ELSE Ok(Object, b.h)
      [] e.k = "Block" -> check_type(BlockLoop(e, 1, Ok(None, h)), te, h, reg, interned)
      [] e.k = "BlockLoop" ->
            IF e.i > Len(e.node.exprs)
            THEN IF e.last_type.val = None THEN Ok(Object, h) ELSE e.last_type
            ELSE LET r == check_type(e.node.exprs[e.i], te, h, reg, interned)
                 IN  IF ~r.ok THEN r
                     ELSE check_type(BlockLoop(e.node, e.i + 1, r), te, r.h, reg, interned)
      [] e.k = "Let" ->
            LET extended_te == child(h, te)
            IN  check_type(LetLoop(e, 1, extended_te.id), te, extended_te.h, reg, interned)
      [] e.k = "LetLoop" ->
            IF e.i > Len(e.node.binds)
            THEN check_type(e.node.body, e.extended_te, h, reg, interned)
            ELSE LET b == e.node.binds[e.i]
                     type == normalize(b.type, h[te].type)
                     v == IF b.value = NoExpr THEN Ok(type, h)
                          ELSE LET r == check_type(b.value, te, h, reg, interned)
                               IN  IF ~r.ok THEN r
                                   ELSE Conforms(reg, r.val, type, r.h, r)
                 IN  IF ~v.ok THEN v
                     ELSE IF ~CanSetObject(v.h, e.extended_te, b.name)
                          THEN Err(DuplicateDeclaration, v.h)
                     ELSE check_type(LetLoop(e.node, e.i + 1, e.extended_te), te,
                                     set_object_type(v.h, e.extended_te, b.name, type),
                                     reg, interned)
      [] e.k = "Case" -> check_type(CaseLoop(e, 1, <<>>, <<>>, TRUE), te, h, reg, interned)
      [] e.k = "CaseLoop" ->
            IF e.i > Len(e.node.cases)
            THEN Joined(reg, e.expr_types, e.first_const, h)
            ELSE LET c == e.node.cases[e.i]
                     type == normalize(c.type, h[te].type)
                     clone == child(h, te)
                 IN  IF ~CanSetObject(clone.h, clone.id, c.name)
                     THEN Err(DuplicateDeclaration, clone.h)
                     ELSE LET r == check_type(c.expr, clone.id,
                                     set_object_type(clone.h, clone.id, c.name, type),
                                     reg, interned)
                          IN  IF ~r.ok THEN r
                              ELSE IF type \in SeqRange(e.case_types)
                                   THEN Err(DuplicateCaseType, r.h)
                              ELSE check_type(CaseLoop(e.node, e.i + 1,
                                                       Append(e.case_types, type),
                                                       Append(e.expr_types, r.val),
                                                       IF e.i = 1 THEN r.const
                                                       ELSE e.first_const),
                                              te, r.h, reg, interned)

\* `value_type = value.check_type(te)`, `if not inherits(value_type, type):
\* raise`, `return type`: the tail shared by both feature checks
ValueConforms(r, type, reg) ==
    IF ~r.ok THEN r ELSE Conforms(reg, r.val, type, r.h, OkDecl(type, r.h))

\* VarInitFeatureAST.check_type
CheckAttr(f, te, h, reg, interned) ==
    IF ~CanSetObject(h, te, f.name) THEN Err(DuplicateDeclaration, h)
    ELSE IF f.value = NoExpr
         THEN OkDecl(f.type, set_object_type(h, te, f.name, f.type))
    ELSE ValueConforms(check_type(f.value, te,
                                  set_object_type(h, te, f.name, f.type),
                                  reg, interned),
                       f.type, reg)

ParamTypes(params) == [i \in 1..Len(params) |-> params[i].type]

\* FunctionDeclarationFeatureAST.check_type
CheckMethod(f, te, h, reg, interned) ==
    IF ~CanSetMethod(h, te, f.name) THEN Err(DuplicateDeclaration, h)
    ELSE ValueConforms(check_type(f.body, te,
                                  set_method_type(h, te, f.name,
                                                  ParamTypes(f.params), f.type),
                                  reg, interned),
                       f.type, reg)

CheckFeature(f, te, h, reg, interned) ==
    IF f.k = "Attr" THEN CheckAttr(f, te, h, reg, interned)
    ELSE CheckMethod(f, te, h, reg, interned)

\* ClassDeclarationAST.check_type, the for loop over the features from i on;
\* r is the outcome of the features before i (a raise ends the loop).
RECURSIVE CheckFeatures(_, _, _, _, _, _)
CheckFeatures(cls, i, r, te, reg, interned) ==
    IF ~r.ok \/ i > Len(cls.features) THEN r
    ELSE CheckFeatures(cls, i + 1,
                       CheckFeature(cls.features[i], te, r.h, reg, interned),
                       te, reg, interned)

\* `return self.type` after the loop
ClassResult(r, type) == IF r.ok THEN OkDecl(type, r.h) ELSE r

\* ClassDeclarationAST.__init__: an absent parent name means Object
inherited_type(cls) == IF cls.parent = None THEN Object ELSE cls.parent

\* type_env_of: the cached root environment of `type`, created on first use
type_env_of(tte, type) ==
    IF tte[type].type # NoType THEN tte[type] ELSE NewTE(type, NoParent)

\* ClassDeclarationAST.check_type on the class's root environment, node 1 of h.
\* The outcome carries the registry as the call left it.
ClassCheckType(cls, h, reg, interned) ==
    IF ~is_inheritable(inherited_type(cls))
    THEN [res |-> Err(InvalidInheritance, h), reg |-> reg]
    ELSE [res |-> ClassResult(
                    CheckFeatures(cls, 1, OkDecl(cls.name, h), 1,
                                  make_inherit(reg, cls.name, inherited_type(cls)),
                                  interned),
                    cls.name),
          reg |-> make_inherit(reg, cls.name, inherited_type(cls))]

\* The registry and the environment cache as a class check leaves them
InitOutcome(c, tte, type) ==
    [ok |-> c.res.ok, val |-> c.res.val, reg |-> c.reg,
     tte |-> [tte EXCEPT ![type] = c.res.h[1]]]

\* ClassDeclarationAST.init_typecheck: outcome, registry and environment cache
InitTypecheck(cls, tte, reg, interned) ==
    IF cls.name = SELF_TYPE \/ is_std_type(cls.name)
    THEN [ok |-> FALSE, val |-> InvalidClassName, reg |-> reg, tte |-> tte]
    ELSE InitOutcome(ClassCheckType(cls, <<type_env_of(tte, cls.name)>>, reg, interned),
                     tte, cls.name)

(***************************************************************************)
(* AST constructors and the bounded input sets                             *)
(***************************************************************************)
IntLit == [k |-> "Int"]
BoolLit == [k |-> "Bool"]
StringLit == [k |-> "String"]
Id(name) == [k |-> "Id", name |-> name]
New(type) == [k |-> "New", type |-> type]
Unary(kind, expr) == [k |-> kind, expr |-> expr]
Attr(name, type, value) == [k |-> "Attr", name |-> name, type |-> type, value |-> value]
Method(name, params, type, body) ==
    [k |-> "Method", name |-> name, params |-> params, type |-> type, body |-> body]
ClassDecl(name, parent, features) ==
    [name |-> name, parent |-> parent, features |-> features]

NoTE == NewTE(NoType, NoParent)

\* Class declarations of the sequence specification
SeqClassNames == {"A", "B", SELF_TYPE, IO}
SeqParents == {None, "A", "B", IO, Int, SELF_TYPE}
SeqFeatures ==
    { <<>>,
      <<Attr("x", Int, NoExpr)>>,
      <<Attr("x", Int, NoExpr), Attr("x", Int, NoExpr)>> }
SeqClasses ==
    {ClassDecl(n, p, f) : n \in SeqClassNames, p \in SeqParents, f \in SeqFeatures}

(***************************************************************************)
(* Spec: the program checks class declarations one after another           *)
(***************************************************************************)
NoOp == [op |-> "none"]

NoScopes == <<>>

Init ==
    /\ parentOf = [c \in ClassNames |-> NoEdge]
    /\ typeToTE = [c \in ClassNames |-> NoTE]
    /\ scopes = NoScopes
    /\ last = NoOp

\* cls.init_typecheck(), in a run of the interpreter that does (interned) or
\* does not share one str object between equal type names
DoInitTypecheck(cls) ==
    \E interned \in BOOLEAN :
        \E r \in {InitTypecheck(cls, typeToTE, parentOf, interned)} :
            /\ parentOf' = r.reg
            /\ typeToTE' = r.tte
            /\ last' = [op |-> "init_typecheck", cls |-> cls, interned |-> interned,
                        ok |-> r.ok, val |-> r.val]
            /\ UNCHANGED scopes

Next == \E cls \in SeqClasses : DoInitTypecheck(cls)

Spec == Init /\ [][Next]_vars

(***************************************************************************)
(* SpecTypes: inherits and union_type queried on an arbitrary registry     *)
(***************************************************************************)
MaxTypes == 3

Registries == [ClassNames -> ClassNames \cup {Object, NoEdge}]
QueryTypes == ClassNames \cup {Object, Int}
\* Members of the joined lists: the registry ranges over all four classes, so
\* three class names give every list of up to three classes up to renaming.
JoinTypes == {"A", "B", "C", Object}
TypeLists == UNION {[1..n -> JoinTypes] : n \in 1..MaxTypes}

InitTypes ==
    /\ parentOf \in Registries
    /\ typeToTE = [c \in ClassNames |-> NoTE]
    /\ scopes = NoScopes
    /\ last = NoOp

\* inherits(type, parent_type)
QueryInherits(type, parent_type) ==
    /\ last = NoOp
    /\ last' = [op |-> "inherits", type |-> type, parent_type |-> parent_type,
                result |-> inherits(parentOf, type, parent_type)]
    /\ UNCHANGED <<parentOf, typeToTE, scopes>>

\* union_type(types)
QueryUnion(types) ==
    /\ last = NoOp
    /\ last' = [op |-> "union_type", types |-> types,
                result |-> union_type(parentOf, types)]
    /\ UNCHANGED <<parentOf, typeToTE, scopes>>

NextTypes ==
    \/ \E type \in QueryTypes, parent_type \in QueryTypes :
          QueryInherits(type, parent_type)
    \/ \E types \in TypeLists : QueryUnion(types)

SpecTypes == InitTypes /\ [][NextTypes]_vars

(***************************************************************************)
(* The parent chain of a type, as a set: the least set holding the type    *)
(* and closed under the parent edges of its non-root members.              *)
(***************************************************************************)
RECURSIVE ChainFrom(_, _)
ChainFrom(reg, S) ==
    LET T == S \cup {RegGet(reg, u) : u \in {v \in S : v # Object /\ RegGet(reg, v) # None}}
    IN  IF T = S THEN S ELSE ChainFrom(reg, T)

Chain(reg, type) == ChainFrom(reg, {type})

\* every declared class's chain ends at Object (so there is no cycle either)
Rooted(reg) == \A c \in DOMAIN reg : reg[c] # NoEdge => Object \in Chain(reg, c)

\* T conforms to U as inherits() answers it
Sub(reg, T, U) == inherits(reg, T, U) = InhTrue

\* C1: on a registry whose chains all end at Object, union_type(types) of a
\* non-empty list is the least upper bound of its members under inherits: it
\* is above every member and below every other common upper bound.  So a
\* singleton yields its member, two classes with the same direct parent yield
\* that parent, two classes related only through the root yield Object, and
\* the result is determined by the set of members alone.
C1_UnionIsLeastUpperBound ==
    (last.op = "union_type" /\ Rooted(parentOf)) =>
        LET R == last.result
            members == SeqRange(last.types)
        IN  /\ \A T \in members : Sub(parentOf, T, R)
            /\ \A U \in AllTypes :
                  (\A T \in members : Sub(parentOf, T, U)) => Sub(parentOf, R, U)
            /\ Len(last.types) = 1 => R = last.types[1]
            /\ \A a \in members : \A b \in members :
                  /\ (members = {a, b} /\ a # b
                        /\ RegGet(parentOf, a) = RegGet(parentOf, b)
                        /\ RegGet(parentOf, a) # None)
                        => R = RegGet(parentOf, a)
                  /\ (members = {a, b}
                        /\ Chain(parentOf, a) \cap Chain(parentOf, b) = {Object})
                        => R = Object
            /\ \A U \in AllTypes :
                  ((\A T \in members : Sub(parentOf, T, U))
                      /\ \A V \in AllTypes :
                            (\A T \in members : Sub(parentOf, T, V)) => Sub(parentOf, U, V))
                  => U = R

\* two sibling classes under a declared parent joined to that parent
C1_Witness ==
    /\ last.op = "union_type" /\ Rooted(parentOf)
    /\ \E a \in ClassNames, b \in ClassNames :
          /\ a # b /\ SeqRange(last.types) = {a, b} /\ Len(last.types) = 3
          /\ parentOf[a] = parentOf[b] /\ parentOf[a] \in ClassNames
          /\ last.result = parentOf[a]

\* C2: inherits(type, ancestor) is True whenever ancestor is Object; otherwise
\* it is True exactly when ancestor is on type's parent chain, False exactly
\* when the chain reaches Object without holding ancestor, and fails exactly
\* when the chain, not holding ancestor, ends at a non-root type with no edge.
C2_InheritsContract ==
    last.op = "inherits" =>
        LET chain == Chain(parentOf, last.type)
            found == last.parent_type \in chain
            dangling == \E u \in chain : u # Object /\ RegGet(parentOf, u) = None
        IN  IF last.parent_type = Object THEN last.result = InhTrue
            ELSE /\ last.result = InhTrue <=> found
                 /\ last.result = InhFalse <=> (~found /\ Object \in chain)
                 /\ last.result = BrokenHierarchy <=> (~found /\ dangling)

\* a walk that left its start and fell off an undeclared ancestor
C2_Witness ==
    /\ last.op = "inherits"
    /\ RegGet(parentOf, last.type) # None
    /\ last.result = BrokenHierarchy

(***************************************************************************)
(* SpecCheck: one check_type call, on a class declaration or directly on   *)
(* an expression node in the root environment of class A.  The registry    *)
(* and A's cached environment are drawn from states that earlier class     *)
(* checks can leave behind.                                                *)
(***************************************************************************)
MaxItems == 2

SeqsUpTo(S, n) == UNION {[1..m -> S] : m \in 0..n}
SeqsFrom1(S, n) == UNION {[1..m -> S] : m \in 1..n}

Arith(left, right) == [k |-> "Arith", left |-> left, right |-> right]
Cmp(op, left, right) == [k |-> "Cmp", op |-> op, left |-> left, right |-> right]
Assign(name, value) == [k |-> "Assign", name |-> name, value |-> value]
Call == [k |-> "Call"]
If(cond, then, else) == [k |-> "If", cond |-> cond, then |-> then, else |-> else]
Loop(cond, body) == [k |-> "Loop", cond |-> cond, body |-> body]
Block(exprs) == [k |-> "Block", exprs |-> exprs]
Binding(name, type, value) == [name |-> name, type |-> type, value |-> value]
Let(binds, body) == [k |-> "Let", binds |-> binds, body |-> body]
Branch(name, type, expr) == [name |-> name, type |-> type, expr |-> expr]
Case(expr, cases) == [k |-> "Case", expr |-> expr, cases |-> cases]
Param(name, type) == [name |-> name, type |-> type]

Leaves ==
    {IntLit, BoolLit, StringLit, Id("x"), Id("y"), Id(SELF),
     New("A"), New("B"), New(SELF_TYPE)}
UnaryExprs == {Unary(kind, e) : kind \in {"IsVoid", "Neg", "Not", "Group"}, e \in Leaves}
ArithExprs == {Arith(l, r) : l, r \in {IntLit, BoolLit, Id("x"), Id("y")}}
CmpExprs ==
    {Cmp(op, l, r) : op \in {"<", "="}, l, r \in {IntLit, StringLit, Id("x"), New("A")}}
AssignExprs ==
    {Assign(n, v) : n \in {"x", "y"}, v \in {IntLit, BoolLit, New("A"), Id("y")}}
IfExprs ==
    {If(c, t, f) : c \in {BoolLit, IntLit, Id("y")},
                   t, f \in {IntLit, New("A"), New("B"), Id("x")}}
LoopExprs == {Loop(c, b) : c \in {BoolLit, IntLit, Id("y")}, b \in {StringLit, Id("x")}}
BlockExprs == {Block(es) : es \in SeqsUpTo({IntLit, Id("x"), New("A")}, MaxItems)}
Bindings ==
    {Binding(n, t, v) : n \in {"x", "y"}, t \in {Int, SELF_TYPE}, v \in {NoExpr, Id("x")}}
        \cup {Binding(n, Int, IntLit) : n \in {"x", "y"}}
LetExprs == {Let(bs, Id("y")) : bs \in SeqsFrom1(Bindings, MaxItems)}
Branches ==
    {Branch("x", t, e) : t \in {"A", "B", SELF_TYPE},
                         e \in {Id("x"), IntLit, Id("p")}}
CaseExprs == {Case(IntLit, cs) : cs \in SeqsUpTo(Branches, MaxItems)}
UncheckedExprs ==
    {Case(Id("p"), cs) : cs \in SeqsUpTo({Branch("x", "A", Id("x"))}, MaxItems)}
        \cup {Unary("Group", Unary("IsVoid", Id("p")))}
FlatExprs ==
    UnaryExprs \cup ArithExprs \cup CmpExprs \cup AssignExprs \cup {Call}
        \cup IfExprs \cup LoopExprs
NestedExprs == {Unary(kind, e) : kind \in {"IsVoid", "Not", "Group"}, e \in FlatExprs}
CheckExprs ==
    Leaves \cup FlatExprs \cup BlockExprs \cup LetExprs \cup CaseExprs \cup NestedExprs
        \cup UncheckedExprs

FeatureValues == {NoExpr} \cup Leaves \cup UnaryExprs \cup UncheckedExprs
CheckFeatureLists ==
    {<<Attr(n, t, v)>> : n \in {"x", "y"}, t \in {Int, Bool, "A"}, v \in FeatureValues}
    \cup {<<Method("m", ps, t, b)>> :
            ps \in {<<>>, <<Param("p", Int)>>, <<Param("p", "A")>>},
            t \in {Int, "A"}, b \in {Id("p"), Id("x"), IntLit, New("A")}}
    \cup {<<Method("m", <<Param("p", Int)>>, Int, Id("p")), Attr("y", Int, Id("p"))>>}
CheckClasses == {ClassDecl("A", None, fs) : fs \in CheckFeatureLists}

CheckRegistries ==
    {[c \in ClassNames |-> IF c = "A" THEN a ELSE IF c = "B" THEN b ELSE NoEdge] :
        a \in {Object, "A", "B"}, b \in {Object, "A", NoEdge}}
CheckCaches ==
    {[c \in ClassNames |->
        IF c = "A"
        THEN [NewTE("A", NoParent) EXCEPT !.objs = [n \in IdNames |->
                 IF n = "x" THEN tx ELSE IF n = "y" THEN ty ELSE NoType]]
        ELSE NoTE] :
        tx \in {NoType, Int}, ty \in {NoType, Bool}}

InitCheck ==
    /\ parentOf \in CheckRegistries
    /\ typeToTE \in CheckCaches
    /\ scopes = NoScopes
    /\ last = NoOp

\* cls.init_typecheck()
CheckClass(cls) == last = NoOp /\ DoInitTypecheck(cls)

\* e.check_type(type_env_of(type))
CheckExpr(type, e) ==
    /\ last = NoOp
    /\ \E interned \in BOOLEAN :
          \E r \in {check_type(e, 1, <<type_env_of(typeToTE, type)>>, parentOf, interned)} :
             /\ typeToTE' = [typeToTE EXCEPT ![type] = r.h[1]]
             /\ last' = [op |-> "check_type", class |-> type, e |-> e,
                         interned |-> interned, ok |-> r.ok, val |-> r.val,
                         before |-> type_env_of(typeToTE, type), after |-> r.h[1]]
    /\ UNCHANGED <<parentOf, scopes>>

NextCheck ==
    \/ \E cls \in CheckClasses : CheckClass(cls)
    \/ \E e \in CheckExprs : CheckExpr("A", e)

SpecCheck == InitCheck /\ [][NextCheck]_vars

(***************************************************************************)
(* SpecScope: the evaluation-time Scope chain.  scopes[1] is the outermost *)
(* scope and scopes[i - 1] is the parent of scopes[i]; each scope maps a   *)
(* variable name to its value, NoType standing for an absent key.  The     *)
(* bindings of the initial chains are those the binding constructs write   *)
(* into _vars.                                                             *)
(***************************************************************************)
MaxScopes == 3

VarNames == {"x", "y"}
Values == {"v0", "v1"}
EmptyVars == [n \in VarNames |-> NoType]
ScopeChains == UNION {[1..n -> [VarNames -> Values \cup {NoType}]] : n \in 1..MaxScopes}

\* Scope.get_var: the value, or NoType when the lookup raises.
RECURSIVE get_var(_, _, _)
get_var(sc, s, name) ==
    IF sc[s][name] # NoType THEN sc[s][name]
    ELSE IF s > 1 THEN get_var(sc, s - 1, name)
    ELSE NoType

\* Scope.set_var: the two branches store or delegate, and neither returns,
\* so control always reaches the raise on the last line.
RECURSIVE set_var(_, _, _, _)
set_var(sc, s, name, value) ==
    IF sc[s][name] # NoType
    THEN [scopes |-> [sc EXCEPT ![s][name] = value], raised |-> TRUE]
    ELSE IF s > 1
    THEN [scopes |-> set_var(sc, s - 1, name, value).scopes, raised |-> TRUE]
    ELSE [scopes |-> sc, raised |-> TRUE]

\* Scope.child
scope_child(sc) == Append(sc, EmptyVars)

InitScope ==
    /\ parentOf = [c \in ClassNames |-> NoEdge]
    /\ typeToTE = [c \in ClassNames |-> NoTE]
    /\ scopes \in ScopeChains
    /\ last = NoOp

SetVar(s, name, value) ==
    /\ \E r \in {set_var(scopes, s, name, value)} :
          /\ scopes' = r.scopes
          /\ last' = [op |-> "set_var", scope |-> s, name |-> name, value |-> value,
                      bound |-> get_var(scopes, s, name) # NoType,
                      raised |-> r.raised, before |-> scopes]
    /\ UNCHANGED <<parentOf, typeToTE>>

GetVar(s, name) ==
    /\ last' = [op |-> "get_var", scope |-> s, name |-> name,
                value |-> get_var(scopes, s, name),
                raised |-> get_var(scopes, s, name) = NoType]
    /\ UNCHANGED <<parentOf, typeToTE, scopes>>

ScopeChild ==
    /\ Len(scopes) < MaxScopes
    /\ scopes' = scope_child(scopes)
    /\ last' = [op |-> "child"]
    /\ UNCHANGED <<parentOf, typeToTE>>

NextScope ==
    \/ \E s \in 1..Len(scopes), name \in VarNames, value \in Values : SetVar(s, name, value)
    \/ \E s \in 1..Len(scopes), name \in VarNames : GetVar(s, name)
    \/ ScopeChild

SpecScope == InitScope /\ [][NextScope]_vars

\* C10: Scope.set_var on a name bound in the scope or one of its ancestors
\* stores the value in the nearest scope that binds the name and completes
\* without raising; it raises, storing nothing, only when the name is bound
\* nowhere in the chain.
C10_SetVarCompletesWhenBound ==
    last.op = "set_var" =>
        IF last.bound
        THEN /\ ~last.raised
             /\ get_var(scopes, last.scope, last.name) = last.value
        ELSE /\ last.raised
             /\ scopes = last.before

(***************************************************************************)
(* Claims about the class checks of Spec                                   *)
(***************************************************************************)
\* C7: a class declaring two attributes of the same name (or an attribute
\* its own root environment already holds) is rejected with
\* DuplicateDeclaration, and otherwise accepted: attributes of ancestors
\* never count, so a subclass redeclaring an ancestor's attribute is accepted.
C7_DuplicateAttributeRejected ==
    [][LET cls == last'.cls
           names == [i \in 1..Len(cls.features) |-> cls.features[i].name]
           fresh == \A i \in 1..Len(names) :
                       /\ typeToTE[cls.name].objs[names[i]] = NoType
                       /\ \A j \in 1..(i - 1) : names[j] # names[i]
       IN  (last'.op = "init_typecheck" /\ cls.name \in ClassNames
               /\ is_inheritable(inherited_type(cls)))
           => IF fresh THEN last'.ok /\ last'.val = cls.name
              ELSE ~last'.ok /\ last'.val = DuplicateDeclaration]_vars

\* class B inherits A redeclares attribute x of the checked class A, accepted
C7_Witness ==
    /\ last.op = "init_typecheck" /\ last.ok
    /\ last.cls = ClassDecl("B", "A", <<Attr("x", Int, NoExpr)>>)
    /\ parentOf["A"] = Object /\ parentOf["B"] = "A"
    /\ typeToTE["A"].objs["x"] = Int

\* C8: every parent edge, when it is recorded, points to an inheritable type
\* that is Object or a class already declared; a class whose declared parent
\* is anything else registers no edge.
C8_EdgesPointToDeclared ==
    [][\A c \in ClassNames :
          parentOf'[c] # parentOf[c] =>
              /\ is_inheritable(parentOf'[c])
              /\ parentOf'[c] = Object \/ RegGet(parentOf, parentOf'[c]) # None]_vars

\* C9: no class is among its own proper ancestors, and so on every pair of
\* types inherits terminates and union_type returns a type, its chain walk
\* being finite.
C9_RegistryAcyclic ==
    /\ \A c \in ClassNames :
          parentOf[c] # NoEdge => c \notin Chain(parentOf, parentOf[c])
    /\ \A t \in ClassNames \cup {Object} : \A a \in ClassNames \cup {Object} :
          /\ inherits(parentOf, t, a) # Diverges
          /\ union_type(parentOf, <<t, a>>) # MemoryError

(***************************************************************************)
(* Claims about single check_type calls (SpecCheck)                        *)
(***************************************************************************)
\* C3: the body of a method is checked in an environment that binds the
\* method's formal parameters, so a method returning its own parameter at the
\* parameter's type is accepted; the binding is not visible to the features
\* that follow the method.
C3_ParamsVisibleInBody ==
    (last.op = "init_typecheck" /\ Len(last.cls.features) >= 1
        /\ last.cls.features[1].k = "Method"
        /\ Len(last.cls.features[1].params) = 1
        /\ last.cls.features[1].body = Id(last.cls.features[1].params[1].name)
        /\ last.cls.features[1].type = last.cls.features[1].params[1].type)
    => IF Len(last.cls.features) = 1 THEN last.ok
       ELSE (last.cls.features[2].k = "Attr"
                /\ last.cls.features[2].value = Id(last.cls.features[1].params[1].name))
            => ~last.ok

\* The child nodes an AST node owns
Children(e) ==
    CASE e.k \in {"IsVoid", "Neg", "Not", "Group"} -> <<e.expr>>
      [] e.k \in {"Arith", "Cmp"} -> <<e.left, e.right>>
      [] e.k = "Assign" -> <<e.value>>
      [] e.k = "If" -> <<e.cond, e.then, e.else>>
      [] e.k = "Loop" -> <<e.cond, e.body>>
      [] e.k = "Block" -> e.exprs
      [] e.k = "Let" ->
            SelectSeq([i \in 1..Len(e.binds) |-> e.binds[i].value],
                      LAMBDA v : v # NoExpr) \o <<e.body>>
      [] e.k = "Case" -> <<e.expr>> \o [i \in 1..Len(e.cases) |-> e.cases[i].expr]
      [] e.k = "Attr" -> IF e.value = NoExpr THEN <<>> ELSE <<e.value>>
      [] e.k = "Method" -> <<e.body>>
      [] OTHER -> <<>>

\* The child nodes a node's check_type calls check_type on when nothing raises
CheckedChildren(e) ==
    CASE e.k = "IsVoid" -> <<>>
      [] e.k = "Case" -> [i \in 1..Len(e.cases) |-> e.cases[i].expr]
      [] OTHER -> Children(e)

\* Number of nodes below and including the nodes of `work`: all of them, or
\* (checked) those a successful check visits
RECURSIVE CountNodes(_, _)
CountNodes(work, checked) ==
    IF work = <<>> THEN 0
    ELSE 1 + CountNodes(Tail(work) \o (IF checked THEN CheckedChildren(Head(work))
                                       ELSE Children(Head(work))),
                        checked)

\* C4: when a check succeeds, every expression node of the checked tree has
\* had its type-check step run; in particular a void check or a case over an
\* unbound identifier is rejected.
C4_EveryNodeChecked ==
    /\ (last.op = "init_typecheck" /\ last.ok) =>
          CountNodes(last.cls.features, TRUE) = CountNodes(last.cls.features, FALSE)
    /\ (last.op = "check_type" /\ last.ok) =>
          CountNodes(<<last.e>>, TRUE) = CountNodes(<<last.e>>, FALSE)
    /\ (last.op = "check_type" /\ last.e.k = "IsVoid" /\ last.e.expr.k = "Id"
          /\ last.e.expr.name # SELF /\ last.before.objs[last.e.expr.name] = NoType)
       => ~last.ok
    /\ (last.op = "check_type" /\ last.e.k = "Case" /\ last.e.expr = Id("p")) => ~last.ok

\* C5: in a let, every initializer is checked against the outer environment
\* only (a name bound by an earlier binding of the same let, and not outside,
\* is unbound there); the body sees all the bindings; and the outer
\* environment is the same after the let as before it.
C5_LetInitializersSeeOuterOnly ==
    (last.op = "check_type" /\ last.e.k = "Let") =>
        LET binds == last.e.binds
            body == last.e.body
            outer == last.before
            Norm(t) == IF t = SELF_TYPE THEN last.class ELSE t
            Outside(v) == check_type(v, 1, <<outer>>, parentOf, last.interned)
            binders == {i \in 1..Len(binds) : binds[i].name = body.name}
        IN  /\ last.after = outer
            /\ \A i \in 1..Len(binds) :
                  (binds[i].value.k = "Id" /\ binds[i].value.name # SELF
                      /\ outer.objs[binds[i].value.name] = NoType)
                  => (~last.ok /\ (i = 1 => last.val = UnboundIdentifier))
            /\ last.ok =>
                  /\ \A i \in 1..Len(binds) :
                        binds[i].value # NoExpr =>
                            /\ Outside(binds[i].value).ok
                            /\ Sub(parentOf, Outside(binds[i].value).val, Norm(binds[i].type))
                  /\ IF binders # {}
                     THEN \E i \in binders : last.val = Norm(binds[i].type)
                     ELSE last.val = outer.objs[body.name]

\* let x : Int <- 1, y : Int <- x in y, with x unbound outside, is rejected
C5_Witness ==
    /\ last.op = "check_type"
    /\ last.e = Let(<<Binding("x", Int, IntLit), Binding("y", Int, Id("x"))>>, Id("y"))
    /\ last.before.objs["x"] = NoType
    /\ ~last.ok /\ last.val = UnboundIdentifier
    /\ last.after = last.before

\* C6 as stated: a case with two branches of the same (normalized) bound
\* type is rejected with DuplicateCaseType.
C6_DuplicateCaseTypeAlways ==
    (last.op = "check_type" /\ last.e.k = "Case") =>
        LET cases == last.e.cases
            Norm(t) == IF t = SELF_TYPE THEN last.class ELSE t
        IN  (\E i \in 1..Len(cases) : \E j \in 1..Len(cases) :
                i # j /\ Norm(cases[i].type) = Norm(cases[j].type))
            => (~last.ok /\ last.val = DuplicateCaseType)

\* C6: a case with two branches of the same (normalized) bound type is
\* rejected: with the failure of the first branch body that does not check,
\* among the branches up to and including the first one that repeats a type,
\* and with DuplicateCaseType when all of those check.  With pairwise
\* distinct types and well-typed bodies T1..Tn the case has type
\* union_type([T1..Tn]).
C6_DuplicateCaseTypeAfterBodies ==
    (last.op = "check_type" /\ last.e.k = "Case") =>
        LET cases == last.e.cases
            n == Len(cases)
            Norm(t) == IF t = SELF_TYPE THEN last.class ELSE t
            BranchEnv(i) ==
                <<last.before,
                  [NewTE(last.class, 1) EXCEPT !.objs[cases[i].name] = Norm(cases[i].type)]>>
            BodyOf(i) == check_type(cases[i].expr, 2, BranchEnv(i), parentOf, last.interned)
            Repeats(j) == \E i \in 1..(j - 1) : Norm(cases[i].type) = Norm(cases[j].type)
            checked == {j \in 1..n : \A k \in 1..(j - 1) : ~Repeats(k)}
            bad == {i \in checked : ~BodyOf(i).ok}
            first_bad == CHOOSE i \in bad : \A k \in bad : i <= k
            u == union_type(parentOf, [i \in 1..n |-> BodyOf(i).val])
        IN  IF bad # {} THEN ~last.ok /\ last.val = BodyOf(first_bad).val
            ELSE IF \E j \in 1..n : Repeats(j)
                 THEN ~last.ok /\ last.val = DuplicateCaseType
            ELSE IF u = MemoryError THEN ~last.ok /\ last.val = MemoryError
            ELSE last.ok /\ last.val = u

\* in class A, branches of types SELF_TYPE and A with well-typed bodies
C6_Witness ==
    /\ last.op = "check_type" /\ last.class = "A"
    /\ last.e = Case(IntLit, <<Branch("x", SELF_TYPE, IntLit), Branch("x", "A", Id("x"))>>)
    /\ ~last.ok /\ last.val = DuplicateCaseType

=============================================================================
